---- MODULE Spec2Model ----
(***************************************************************************)
(* Model of TaskExecutionEngine (src/src/App.jsx, lines 19-108): the       *)
(* record store, the subscriber set, the metrics and the async executeDAG. *)
(*                                                                         *)
(* JavaScript is single threaded and runs every callback to completion,    *)
(* so one action is one macrotask: the synchronous part of executeDAG up   *)
(* to its first await, or the resumption of one executeDAG call when its   *)
(* setTimeout fires, up to the next await or the return.                   *)
(*                                                                         *)
(* successRate and avgExecutionTime are kept in HALF units (85 is 170,     *)
(* 0.5 is 1, 2.5 is 5) so that the +0.5 step of updateMetrics is an        *)
(* integer step; all values the code produces are multiples of 0.5.        *)
(* The fields the engine writes and never reads (cost, startTime, endTime)  *)
(* are left out of the records.                                            *)
(***************************************************************************)
EXTENDS Integers, Sequences, FiniteSets, TLC

VARIABLES
    executions,    \* this.executions: Map id -> execution object (index into records)
    records,       \* the execution objects created by executeDAG, in creation order
    calls,         \* the activation of each executeDAG call (same index as records)
    subscribers,   \* this.subscribers: a Set, kept as a sequence in insertion order
    metrics,       \* this.metrics
    now,           \* the clock read by Date.now(), see Tick
    published,     \* per call: the events passed to notify, with what they showed then
    step,          \* the notify and updateMetrics calls made by the last macrotask
    unsubscribed,  \* per callback: "no", or once its unsubscribe function was called
                   \* "busy" (a call was in flight then) or "idle"; "no" again when
                   \* it is subscribed again
    catalog,       \* the DAG definitions the callers of this engine pass to executeDAG
    handlers,      \* per callback: what the function does when it is called
    ui             \* the state of the OrbitalTaskEngine component: user and
                   \* isExecuting as of the last render, and the values passed
                   \* to setUser and setIsExecuting since then

vars == <<executions, records, calls, subscribers, metrics, now, published,
          step, unsubscribed, catalog, handlers, ui>>

----------------------------------------------------------------------------
(* Bounds *)

MaxRuns == 2          \* calls of executeDAG
MaxUpdates == 45      \* direct calls of updateMetrics in SpecMetrics

Callbacks == {"cb1", "cb2"}

----------------------------------------------------------------------------
(* Helpers *)

Range(s) == {s[i] : i \in 1..Len(s)}

Min(a, b) == IF a < b THEN a ELSE b

Max(a, b) == IF a > b THEN a ELSE b

\* The element of a set of one element.
Only(S) == CHOOSE x \in S : TRUE

IsPrefix(s, t) == Len(s) <= Len(t) /\ \A i \in 1..Len(s) : s[i] = t[i]

Digits == <<"0", "1", "2", "3", "4", "5", "6", "7", "8", "9">>

RECURSIVE toString(_)
toString(n) ==
    IF n < 10 THEN Digits[n + 1]
    ELSE toString(n \div 10) \o Digits[(n % 10) + 1]

----------------------------------------------------------------------------
(* DAG definitions *)

SAMPLE_DAGS ==
    [data_pipeline |->
        [id |-> "data_pipeline",
         tasks |-> << [id |-> "extract", retries |-> 2],
                      [id |-> "validate", retries |-> 1],
                      [id |-> "transform", retries |-> 3],
                      [id |-> "load", retries |-> 2] >>,
         dependencies |-> [validate |-> <<"extract">>,
                           transform |-> <<"validate">>,
                           load |-> <<"transform">>]],
     ml_pipeline |->
        [id |-> "ml_pipeline",
         tasks |-> << [id |-> "data_prep", retries |-> 2],
                      [id |-> "train_model", retries |-> 1],
                      [id |-> "validate_model", retries |-> 2],
                      [id |-> "deploy_model", retries |-> 3] >>,
         dependencies |-> [train_model |-> <<"data_prep">>,
                           validate_model |-> <<"train_model">>,
                           deploy_model |-> <<"validate_model">>]]]

\* Other DAG definitions a caller may pass to executeDAG: one without tasks
\* and one whose dependency mapping contradicts the array order.
OtherDags ==
    { [id |-> "empty", tasks |-> <<>>, dependencies |-> <<>>],
      [id |-> "reversed",
       tasks |-> << [id |-> "first", retries |-> 0],
                    [id |-> "second", retries |-> 0] >>,
       dependencies |-> [first |-> <<"second">>]] }

Dags == {SAMPLE_DAGS[k] : k \in DOMAIN SAMPLE_DAGS} \cup OtherDags

\* The engine never looks at which DAG it runs, so one behaviour draws its
\* DAGs from one of these sets: a shipped DAG, or the other definitions.
Catalogs == {{SAMPLE_DAGS.data_pipeline}, OtherDags}

TaskIds(dag) == [i \in 1..Len(dag.tasks) |-> dag.tasks[i].id]

\* The prerequisites the dependency mapping lists for a task.
Prerequisites(dag, id) ==
    IF id \in DOMAIN dag.dependencies THEN Range(dag.dependencies[id]) ELSE {}

RECURSIVE TopologicalOrder(_, _, _)
TopologicalOrder(dag, placed, rest) ==
    IF rest = <<>> THEN placed
    ELSE LET ready == {j \in 1..Len(rest) :
                          Prerequisites(dag, rest[j]) \subseteq Range(placed)}
             j == IF ready = {} THEN 1
                  ELSE CHOOSE k \in ready : \A m \in ready : k <= m
         IN  TopologicalOrder(dag, Append(placed, rest[j]),
                              SubSeq(rest, 1, j - 1) \o SubSeq(rest, j + 1, Len(rest)))

\* Mutant of TaskOrder: the tasks are visited in the order the dependency
\* mapping implies.
TaskOrderByDependencies(dag) == TopologicalOrder(dag, <<>>, TaskIds(dag))

\* for (const task of dag.tasks): the order in which executeDAG visits the tasks.
\* Mutant of TaskOrder: the tasks are visited from the last one to the first.
TaskOrderReversed(dag) ==
    [i \in 1..Len(dag.tasks) |-> dag.tasks[Len(dag.tasks) + 1 - i].id]

TaskOrder(dag) == TaskIds(dag)

----------------------------------------------------------------------------
(* The engine.  The operators below take and return the engine state e of   *)
(* the running macrotask, so that an action is the composition of the       *)
(* statements the code executes.                                            *)

Engine ==
    [executions |-> executions, records |-> records, calls |-> calls,
     subscribers |-> subscribers, metrics |-> metrics, published |-> published,
     now |-> now, step |-> <<>>, unsubscribed |-> unsubscribed, ui |-> ui,
     thrown |-> <<>>]

\* this.metrics of the constructor: lines 23-29 (85 and 2.5 in half units)
InitialMetrics ==
    [totalExecutions |-> 0, successRate |-> 170, avgExecutionTime |-> 5,
     activeWorkers |-> 3, queueDepth |-> 5]

\* constructor(): lines 20-30
Constructed ==
    /\ executions = <<>>
    /\ subscribers = <<>>
    /\ metrics = InitialMetrics

\* Map.prototype.set: a new key is appended, an existing key keeps its place.
mapSet(m, k, v) ==
    IF \E j \in 1..Len(m) : m[j].key = k
    THEN [j \in 1..Len(m) |-> IF m[j].key = k THEN [key |-> k, value |-> v] ELSE m[j]]
    ELSE Append(m, [key |-> k, value |-> v])

\* Set.prototype.add
setAdd(set, c) == IF c \in Range(set) THEN set ELSE Append(set, c)

\* Mutant of setDelete: the callback stays in the set.
setDeleteNothing(set, c) == set

\* Set.prototype.delete
setDelete(set, c) == SelectSeq(set, LAMBDA x : x # c)

\* execution.tasks[task.id] = taskExecution: own string keys keep insertion order.
setTask(tasks, t) ==
    IF \E j \in 1..Len(tasks) : tasks[j].id = t.id
    THEN [j \in 1..Len(tasks) |-> IF tasks[j].id = t.id THEN t ELSE tasks[j]]
    ELSE Append(tasks, t)

\* The task record of execution r stored under key id.
taskOf(e, r, id) ==
    LET ts == e.records[r].tasks
    IN  ts[CHOOSE j \in 1..Len(ts) : ts[j].id = id]

\* The state of the component before anyone has logged in: lines 614-618.
InitialUI ==
    [user |-> FALSE, isExecuting |-> FALSE, setUser |-> <<>>, setIsExecuting |-> <<>>]

\* The callback the effect of OrbitalTaskEngine subscribes: lines 628-646, for
\* the state the Execute trigger reads.
onEvent(u, event) ==
    CASE event.type = "execution_started" -> [u EXCEPT !.setIsExecuting = <<TRUE>>]
      [] event.type = "execution_completed" -> [u EXCEPT !.setIsExecuting = <<FALSE>>]
      [] OTHER -> u

\* The other callback of the two.
other(c) == CHOOSE d \in Callbacks : d # c

\* The events that carry a task: lines 66 and 82.
TaskLevel == {"task_started", "task_completed"}

\* The message of the error a throwing callback throws.
CallbackMessage == "callback failed"

\* callback(data) at line 38, by what the callback c does:
\*   "plain"             it looks at the event and touches nothing of the engine
\*   "unsubscribesOther" it calls the function subscribe returned for the other
\*                       callback (line 34)
\*   "ui"                it is the callback of lines 628-646
\*   "throwsOnTask"      it throws when the event is a task-level one
\*   "throws"            it throws whatever the event
\* e.thrown holds the message of the exception on its way up the stack.
call(e, c, event) ==
    CASE handlers[c] = "plain" -> e
      [] handlers[c] = "throwsOnTask" ->
            IF event.type \in TaskLevel THEN [e EXCEPT !.thrown = <<CallbackMessage>>]
            ELSE e
      [] handlers[c] = "throws" -> [e EXCEPT !.thrown = <<CallbackMessage>>]
      [] handlers[c] = "unsubscribesOther" ->
            IF other(c) \in Range(e.subscribers)
            THEN [e EXCEPT !.subscribers = setDelete(@, other(c)),
                           !.unsubscribed[other(c)] = "busy"]
            ELSE e
      [] handlers[c] = "ui" -> [e EXCEPT !.ui = onEvent(@, event)]

\* The entry forEach visits after the i-th one, when calling that one changed
\* the set from `before` to `after`: the entries after a deleted one move up.
nextEntry(before, after, i) ==
    Cardinality({j \in 1..i : before[j] \in Range(after)}) + 1

\* Set.prototype.forEach at line 38, from the i-th entry of the set: it walks
\* the live set in insertion order, so an entry deleted before it is reached
\* is not visited, and an exception of a callback ends the walk.  The result
\* is the state the callbacks leave and the callbacks called, in order.
RECURSIVE forEach(_, _, _, _)
forEach(e, event, i, called) ==
    IF i > Len(e.subscribers) THEN [e |-> e, called |-> called]
    ELSE Only({IF e1.thrown # <<>>
               THEN [e |-> e1, called |-> Append(called, e.subscribers[i])]
               ELSE forEach(e1, event, nextEntry(e.subscribers, e1.subscribers, i),
                            Append(called, e.subscribers[i]))
               : e1 \in {call(e, e.subscribers[i], event)}})

\* The body of notify on the state e0 of the caller.
deliver(e0, data) ==
    LET r == data.execution
        ev == [type |-> data.type, execution |-> r, task |-> data.task,
               status |-> e0.records[r].status,
               tasks |-> e0.records[r].tasks,
               taskStatus |-> IF data.task = <<>> THEN <<>>
                              ELSE <<taskOf(e0, r, data.task[1]).status>>]
    IN  Only({[d.e EXCEPT !.published[r] = Append(@, ev),
                          !.step = Append(@, [op |-> "notify", event |-> ev,
                                              subscribed |-> e0.subscribers,
                                              to |-> d.called,
                                              thrown |-> d.e.thrown])]
              : d \in {forEach(e0, ev, 1, <<>>)}})

\* notify(data): lines 37-39.  The event holds references, so what a callback
\* sees is the state at the call.  notify has no try block: an exception of a
\* callback leaves it (thrown is set in the result).
notify(e, data) == Only({deliver(e0, data) : e0 \in {e}})

\* Mutant of updateMetrics: the success rate is not clamped.
updateMetricsUnclamped(m, success) ==
    [m EXCEPT !.totalExecutions = @ + 1,
              !.successRate = IF success THEN @ + 1 ELSE @ - 2,
              !.queueDepth = Max(0, @ - 1)]

\* Mutant of updateMetrics: the queue depth is not floored.
updateMetricsUnfloored(m, success) ==
    [m EXCEPT !.totalExecutions = @ + 1,
              !.successRate = IF success THEN Min(190, @ + 1) ELSE Max(140, @ - 2),
              !.queueDepth = @ - 1]

\* Mutant of updateMetrics: only successful runs are counted.
updateMetricsCountsSuccesses(m, success) ==
    [m EXCEPT !.totalExecutions = IF success THEN @ + 1 ELSE @,
              !.successRate = IF success THEN Min(190, @ + 1) ELSE Max(140, @ - 2),
              !.queueDepth = Max(0, @ - 1)]

\* updateMetrics(success): lines 99-107, on the metrics object.
updateMetrics(m, success) ==
    [m EXCEPT !.totalExecutions = @ + 1,
              !.successRate = IF success THEN Min(190, @ + 1) ELSE Max(140, @ - 2),
              !.queueDepth = Max(0, @ - 1)]

callUpdateMetrics(e, success) ==
    [e EXCEPT !.metrics = updateMetrics(@, success),
              !.step = Append(@, [op |-> "updateMetrics", success |-> success])]

\* An exception leaves the async function executeDAG: its promise is rejected.
reject(e, r) ==
    [e EXCEPT !.calls[r].pc = "returned", !.calls[r].result = "rejected",
              !.calls[r].timer = "none", !.thrown = <<>>]

\* lines 95-96: the last event and the return, which resolves the promise.
\* Line 95 is outside the try block.
publishAndReturn(e, r) ==
    Only({IF e1.thrown # <<>> THEN reject(e1, r)
          ELSE [e1 EXCEPT !.calls[r].pc = "returned", !.calls[r].result = "resolved",
                          !.calls[r].timer = "none"]
          : e1 \in {notify(e, [type |-> "execution_completed", execution |-> r,
                               task |-> <<>>])}})

\* Mutant of completeRun: a completed run does not update the metrics.
completeRunNoMetrics(e, r) == [e EXCEPT !.records[r].status = "completed"]

\* lines 85-87
completeRun(e, r) ==
    callUpdateMetrics([e EXCEPT !.records[r].status = "completed"], TRUE)

\* Mutant of catch: the run record gets the text recorded on the failed task.
catchTaskMessage(e, r, message) ==
    callUpdateMetrics([e EXCEPT !.records[r].status = "failed",
                                !.records[r].error = <<"Task execution failed">>], FALSE)

\* catch (error): lines 88-93
catch(e, r, message) ==
    callUpdateMetrics([e EXCEPT !.records[r].status = "failed",
                                !.records[r].error = <<message>>], FALSE)

\* Mutant of throw: no catch clause, the error rejects the promise of the call.
throwUncaught(e, r, message) ==
    [e EXCEPT !.calls[r].pc = "returned", !.calls[r].result = "rejected",
              !.calls[r].timer = "none"]

\* throw new Error(message) inside the try block of executeDAG: control goes to
\* the catch clause and from there to lines 95-96.
throw(e, r, message) ==
    publishAndReturn(catch([e EXCEPT !.thrown = <<>>], r, message), r)

\* Mutant of startTask: the promise awaited at line 69 is never resolved.
startTaskNoTimer(e, r, i) ==
    LET id == TaskOrder(e.calls[r].dag)[i]
        taskExecution == [id |-> id, status |-> "running", retries |-> 0, error |-> <<>>]
        e1 == [e EXCEPT !.records[r].tasks = setTask(@, taskExecution)]
        e2 == notify(e1, [type |-> "task_started", execution |-> r, task |-> <<id>>])
    IN  [e2 EXCEPT !.calls[r].i = i, !.calls[r].pc = "await",
                   !.calls[r].timer = "none"]

\* Mutant of startTask: the task_started event does not carry the task.
startTaskBareEvent(e, r, i) ==
    LET id == TaskOrder(e.calls[r].dag)[i]
        taskExecution == [id |-> id, status |-> "running", retries |-> 0, error |-> <<>>]
        e1 == [e EXCEPT !.records[r].tasks = setTask(@, taskExecution)]
        e2 == notify(e1, [type |-> "task_started", execution |-> r, task |-> <<>>])
    IN  [e2 EXCEPT !.calls[r].i = i, !.calls[r].pc = "await",
                   !.calls[r].timer = "set"]

\* Mutant of startTask: the notify of line 66 is outside the try block.
startTaskUnguarded(e, r, i) ==
    LET id == TaskOrder(e.calls[r].dag)[i]
        taskExecution == [id |-> id, status |-> "running", retries |-> 0, error |-> <<>>]
        e1 == [e EXCEPT !.records[r].tasks = setTask(@, taskExecution)]
    IN  Only({IF e2.thrown # <<>> THEN reject(e2, r)
              ELSE [e2 EXCEPT !.calls[r].i = i, !.calls[r].pc = "await",
                              !.calls[r].timer = "set"]
              : e2 \in {notify(e1, [type |-> "task_started", execution |-> r,
                                    task |-> <<id>>])}})

\* lines 58-69: one iteration of the loop up to the await.  The notify of line
\* 66 is inside the try block.
startTask(e, r, i) ==
    LET id == TaskOrder(e.calls[r].dag)[i]
        taskExecution == [id |-> id, status |-> "running", retries |-> 0, error |-> <<>>]
        e1 == [e EXCEPT !.records[r].tasks = setTask(@, taskExecution)]
    IN  Only({IF e2.thrown # <<>> THEN throw(e2, r, e2.thrown[1])
              ELSE [e2 EXCEPT !.calls[r].i = i, !.calls[r].pc = "await",
                              !.calls[r].timer = "set"]
              : e2 \in {notify(e1, [type |-> "task_started", execution |-> r,
                                    task |-> <<id>>])}})

\* The for loop from its i-th iteration: lines 57-87 and 95-96.
taskLoop(e, r, i) ==
    IF i <= Len(TaskOrder(e.calls[r].dag))
    THEN startTask(e, r, i)
    ELSE publishAndReturn(completeRun(e, r), r)

\* Mutant of resume: a failed task does not throw, the loop goes on.
resumeNoThrow(e, r, ok) ==
    LET i == e.calls[r].i
        id == TaskOrder(e.calls[r].dag)[i]
        ts == e.records[r].tasks
        j == CHOOSE k \in 1..Len(ts) : ts[k].id = id
        e1 == IF ok
              THEN [e EXCEPT !.records[r].tasks[j].status = "completed"]
              ELSE [e EXCEPT !.records[r].tasks[j].status = "failed",
                             !.records[r].tasks[j].error = <<"Task execution failed">>]
        e2 == notify(e1, [type |-> "task_completed", execution |-> r, task |-> <<id>>])
    IN  taskLoop(e2, r, i + 1)

\* Mutant of resume: task_completed is published before the outcome is drawn,
\* so also for a task that fails.
resumeNotifyFirst(e, r, ok) ==
    LET i == e.calls[r].i
        id == TaskOrder(e.calls[r].dag)[i]
        ts == e.records[r].tasks
        j == CHOOSE k \in 1..Len(ts) : ts[k].id = id
        e0 == notify(e, [type |-> "task_completed", execution |-> r, task |-> <<id>>])
    IN  IF ok
        THEN taskLoop([e0 EXCEPT !.records[r].tasks[j].status = "completed"], r, i + 1)
        ELSE throw([e0 EXCEPT !.records[r].tasks[j].status = "failed",
                              !.records[r].tasks[j].error = <<"Task execution failed">>],
                   r, "Task failed")

\* Mutant of resume: a task that succeeds keeps the status 'running'.
resumeLeavesRunning(e, r, ok) ==
    LET i == e.calls[r].i
        id == TaskOrder(e.calls[r].dag)[i]
        ts == e.records[r].tasks
        j == CHOOSE k \in 1..Len(ts) : ts[k].id = id
    IN  IF ok
        THEN LET e2 == notify(e, [type |-> "task_completed", execution |-> r,
                                  task |-> <<id>>])
             IN  taskLoop(e2, r, i + 1)
        ELSE LET e1 == [e EXCEPT !.records[r].tasks[j].status = "failed",
                                 !.records[r].tasks[j].error = <<"Task execution failed">>]
             IN  throw(e1, r, "Task failed")

\* lines 72-83 after the await, with the outcome of Math.random() > 0.15.
resume(e, r, ok) ==
    LET i == e.calls[r].i
        id == TaskOrder(e.calls[r].dag)[i]
        ts == e.records[r].tasks
        j == CHOOSE k \in 1..Len(ts) : ts[k].id = id
    IN  IF ok
        THEN LET e1 == [e EXCEPT !.records[r].tasks[j].status = "completed"]
             IN  Only({IF e2.thrown # <<>> THEN throw(e2, r, e2.thrown[1])
                       ELSE taskLoop(e2, r, i + 1)
                       : e2 \in {notify(e1, [type |-> "task_completed",
                                             execution |-> r, task |-> <<id>>])}})
        ELSE LET e1 == [e EXCEPT !.records[r].tasks[j].status = "failed",
                                 !.records[r].tasks[j].error = <<"Task execution failed">>]
             IN  throw(e1, r, "Task failed")

\* Mutant of newExecution: the record is created as 'pending'.
newExecutionPending(executionId, dag) ==
    [id |-> executionId, dag |-> dag.id, status |-> "pending", tasks |-> <<>>,
     error |-> <<>>]

\* Mutant of newExecution: the status the record starts with depends on the
\* clock reading.
newExecutionByClock(executionId, dag) ==
    [id |-> executionId, dag |-> dag.id,
     status |-> IF executionId = "0" THEN "running" ELSE "pending",
     tasks |-> <<>>, error |-> <<>>]

\* The object literal of lines 43-50.
newExecution(executionId, dag) ==
    [id |-> executionId, dag |-> dag.id, status |-> "running", tasks |-> <<>>,
     error |-> <<>>]

\* lines 42-53, then the loop up to the first await.  Line 53 is outside the
\* try block.
executeDAG(e, dag) ==
    LET executionId == toString(e.now)
        r == Len(e.records) + 1
        execution == newExecution(executionId, dag)
        e1 == [e EXCEPT !.records = Append(@, execution),
                        !.calls = Append(@, [dag |-> dag, i |-> 0, pc |-> "start",
                                             result |-> "pending", timer |-> "none"]),
                        !.published = Append(@, <<>>),
                        !.executions = mapSet(@, executionId, r)]
    IN  Only({IF e2.thrown # <<>> THEN reject(e2, r) ELSE taskLoop(e2, r, 1)
              : e2 \in {notify(e1, [type |-> "execution_started", execution |-> r,
                                    task |-> <<>>])}})

Commit(e) ==
    /\ executions' = e.executions
    /\ records' = e.records
    /\ calls' = e.calls
    /\ metrics' = e.metrics
    /\ published' = e.published
    /\ step' = e.step
    /\ subscribers' = e.subscribers
    /\ unsubscribed' = e.unsubscribed
    /\ ui' = e.ui

InFlight == {r \in 1..Len(calls) : calls[r].pc = "await"}

----------------------------------------------------------------------------
(* Actions *)

Init ==
    /\ Constructed
    /\ records = <<>>
    /\ calls = <<>>
    /\ now = 0
    /\ published = <<>>
    /\ step = <<>>
    /\ unsubscribed = [c \in Callbacks |-> "no"]
    /\ catalog \in Catalogs
    /\ handlers = [c \in Callbacks |-> "plain"]
    /\ ui = InitialUI

\* A caller calls engine.executeDAG(dag).
ExecuteDAG(dag) ==
    /\ Len(calls) < MaxRuns
    /\ Commit(executeDAG(Engine, dag))
    /\ UNCHANGED <<now, catalog, handlers>>

\* The setTimeout of call r (line 69, at least 1000 ms) fires, which it can
\* only do after time has passed since it was set, and the call runs on to
\* its next await or its return.
TimerFires(r) ==
    /\ calls[r].pc = "await"
    /\ calls[r].timer = "due"
    /\ \E ok \in BOOLEAN : Commit(resume(Engine, r, ok))
    /\ UNCHANGED <<now, catalog, handlers>>

\* Time passes: the timers that were set can fire from now on.  The engine
\* reads the clock only to make ids, so `now` numbers the clock readings that
\* became an id: it takes a new value only when a call has used the current
\* one, and equal ids are exactly those made with no time passing in between.
Tick ==
    /\ \/ \E r \in 1..Len(records) : records[r].id = toString(now)
       \/ \E r \in 1..Len(calls) : calls[r].timer = "set"
    /\ now' = IF \E r \in 1..Len(records) : records[r].id = toString(now)
              THEN now + 1 ELSE now
    /\ calls' = [r \in 1..Len(calls) |->
                    IF calls[r].timer = "set" THEN [calls[r] EXCEPT !.timer = "due"]
                    ELSE calls[r]]
    /\ step' = <<>>
    /\ UNCHANGED <<executions, records, subscribers, metrics, published,
                   unsubscribed, catalog, handlers, ui>>

\* subscribe(callback): lines 32-35
Subscribe(c) ==
    /\ subscribers' = setAdd(subscribers, c)
    /\ unsubscribed' = [unsubscribed EXCEPT ![c] = "no"]
    /\ step' = <<>>
    /\ UNCHANGED <<executions, records, calls, metrics, now, published, catalog,
                   handlers, ui>>

\* The function returned by subscribe(c) is called: line 34
Unsubscribe(c) ==
    /\ c \in Range(subscribers) \/ unsubscribed[c] # "no"
    /\ subscribers' = setDelete(subscribers, c)
    /\ unsubscribed' = [unsubscribed EXCEPT ![c] = IF InFlight # {} THEN "busy" ELSE "idle"]
    /\ step' = <<>>
    /\ UNCHANGED <<executions, records, calls, metrics, now, published, catalog,
                   handlers, ui>>

Next ==
    \/ \E dag \in catalog : ExecuteDAG(dag)
    \/ \E r \in 1..Len(calls) : TimerFires(r)
    \/ Tick
    \/ \E c \in Callbacks : Subscribe(c)
    \/ \E c \in Callbacks : Unsubscribe(c)

Spec == Init /\ [][Next]_vars

\* The runs alone, with both callbacks subscribed beforehand, under the
\* scheduling the liveness claims assume: the event loop keeps going, that is,
\* time passes and a timer that is due fires.
EventLoop == Tick \/ \E r \in 1..Len(calls) : TimerFires(r)

NextRuns == (\E dag \in catalog : ExecuteDAG(dag)) \/ EventLoop

FairInit ==
    /\ executions = <<>>
    /\ subscribers = <<"cb1", "cb2">>
    /\ metrics = InitialMetrics
    /\ records = <<>>
    /\ calls = <<>>
    /\ now = 0
    /\ published = <<>>
    /\ step = <<>>
    /\ unsubscribed = [c \in Callbacks |-> "no"]
    /\ catalog \in Catalogs
    /\ handlers = [c \in Callbacks |-> "plain"]
    /\ ui = InitialUI

FairSpec == FairInit /\ [][NextRuns]_vars /\ WF_vars(EventLoop)

----------------------------------------------------------------------------
(* The metrics alone: every call of executeDAG ends with exactly one call of *)
(* updateMetrics (line 87 or line 92), which is all of a run the metrics see. *)

RunEnds(success) ==
    /\ metrics.totalExecutions < MaxUpdates
    /\ metrics' = updateMetrics(metrics, success)
    /\ step' = <<[op |-> "updateMetrics", success |-> success]>>
    /\ UNCHANGED <<executions, records, calls, subscribers, now, published,
                   unsubscribed, catalog, handlers, ui>>

NextMetrics == \E success \in BOOLEAN : RunEnds(success)

SpecMetrics == Init /\ [][NextMetrics]_vars

----------------------------------------------------------------------------
(* The runs of the shipped DAGs. *)

InitSample ==
    /\ Constructed
    /\ records = <<>>
    /\ calls = <<>>
    /\ now = 0
    /\ published = <<>>
    /\ step = <<>>
    /\ unsubscribed = [c \in Callbacks |-> "no"]
    /\ catalog = {SAMPLE_DAGS[k] : k \in DOMAIN SAMPLE_DAGS}
    /\ handlers = [c \in Callbacks |-> "plain"]
    /\ ui = InitialUI

SpecSample == InitSample /\ [][NextRuns]_vars

----------------------------------------------------------------------------
(* The engine with a callback that re-enters it: when cb1 is called it calls *)
(* the unsubscribe function of cb2.                                          *)

InitReentrant ==
    /\ Constructed
    /\ records = <<>>
    /\ calls = <<>>
    /\ now = 0
    /\ published = <<>>
    /\ step = <<>>
    /\ unsubscribed = [c \in Callbacks |-> "no"]
    /\ catalog = OtherDags
    /\ handlers = [c \in Callbacks |-> IF c = "cb1" THEN "unsubscribesOther" ELSE "plain"]
    /\ ui = InitialUI

SpecReentrant == InitReentrant /\ [][Next]_vars

----------------------------------------------------------------------------
(* The engine with a callback that throws: cb1 throws on the task-level      *)
(* events only, or on every event.                                           *)

InitThrow ==
    /\ Constructed
    /\ records = <<>>
    /\ calls = <<>>
    /\ now = 0
    /\ published = <<>>
    /\ step = <<>>
    /\ unsubscribed = [c \in Callbacks |-> "no"]
    /\ catalog = OtherDags
    /\ handlers \in {[c \in Callbacks |-> IF c = "cb1" THEN h ELSE "plain"] :
                        h \in {"throwsOnTask", "throws"}}
    /\ ui = InitialUI

SpecThrow == InitThrow /\ [][Next]_vars

----------------------------------------------------------------------------
(* The OrbitalTaskEngine component around the engine.  A step is one task of *)
(* the browser: a click with the render React makes before the next event,   *)
(* a timer callback, or a render of state set from a timer callback.  The    *)
(* effect of lines 625-649 runs with the render that commits a change of     *)
(* user, before the next user event is handled.                              *)

\* The callback the effect subscribes (a new function each time, and only one
\* at a time: the cleanup deletes the previous one).
uiCallback == "cb1"

\* Mutant of canExecute: the trigger ignores isExecuting.
canExecuteAlways(u) == u.user

\* The Execute button is rendered (line 677), enabled (line 731) and its
\* handler passes the guard of line 668, all read from the last render.
canExecute(u) == u.user /\ ~u.isExecuting

\* A render of the component: the queued state is committed and, when user
\* changed, the cleanup of the effect (return unsubscribe, line 648) or the
\* effect (lines 626-628) runs.
render(e) ==
    LET u == e.ui
        user1 == IF u.setUser = <<>> THEN u.user ELSE u.setUser[1]
        isExecuting1 == IF u.setIsExecuting = <<>> THEN u.isExecuting
                        ELSE u.setIsExecuting[1]
        e1 == [e EXCEPT !.ui = [user |-> user1, isExecuting |-> isExecuting1,
                                setUser |-> <<>>, setIsExecuting |-> <<>>]]
        inFlight == \E r \in 1..Len(e.calls) : e.calls[r].pc = "await"
    IN  CASE user1 /\ ~u.user ->
                [e1 EXCEPT !.subscribers = setAdd(@, uiCallback),
                           !.unsubscribed[uiCallback] = "no"]
          [] ~user1 /\ u.user ->
                [e1 EXCEPT !.subscribers = setDelete(@, uiCallback),
                           !.unsubscribed[uiCallback] =
                               IF inFlight THEN "busy" ELSE "idle"]
          [] OTHER -> e1

\* handleLogin of AuthModal: after its timer, onLogin = setUser is called.
LoginResolves ==
    /\ ~ui.user
    /\ ui.setUser = <<>>
    /\ Commit([Engine EXCEPT !.ui.setUser = <<TRUE>>])
    /\ UNCHANGED <<now, catalog, handlers>>

\* React renders the state that was set from timer callbacks.
Render ==
    /\ ui.setUser # <<>> \/ ui.setIsExecuting # <<>>
    /\ Commit(render(Engine))
    /\ UNCHANGED <<now, catalog, handlers>>

\* handleLogout (lines 673-675), a click: setUser(null) and the render.
Logout ==
    /\ ui.user
    /\ Commit(render([Engine EXCEPT !.ui.setUser = <<FALSE>>]))
    /\ UNCHANGED <<now, catalog, handlers>>

\* A click on Execute with dag selected: executeDAG of lines 666-671 up to
\* the first await of the engine, and the render.
ClickExecute(dag) ==
    /\ canExecute(ui)
    /\ Len(calls) < MaxRuns
    /\ Commit(render(executeDAG(Engine, dag)))
    /\ UNCHANGED <<now, catalog, handlers>>

NextUI ==
    \/ LoginResolves
    \/ Render
    \/ Logout
    \/ \E dag \in catalog : ClickExecute(dag)
    \/ \E r \in 1..Len(calls) : TimerFires(r)
    \/ Tick

InitUI ==
    /\ Constructed
    /\ records = <<>>
    /\ calls = <<>>
    /\ now = 0
    /\ published = <<>>
    /\ step = <<>>
    /\ unsubscribed = [c \in Callbacks |-> "no"]
    /\ catalog = {SAMPLE_DAGS[k] : k \in DOMAIN SAMPLE_DAGS}
    /\ handlers = [c \in Callbacks |-> "ui"]
    /\ ui = InitialUI

SpecUI == InitUI /\ [][NextUI]_vars

\* The component under the scheduling the liveness claims assume: the event
\* loop keeps going and React renders the state that was set.  The user is
\* free to click, log in and log out or not.
FairSpecUI == InitUI /\ [][NextUI]_vars /\ WF_vars(EventLoop) /\ WF_vars(Render)

----------------------------------------------------------------------------
(* Properties *)

Returned(r) == calls[r].pc = "returned"

Terminal == {"completed", "failed"}

\* The ids of the task map of execution r, in insertion order.
TaskKeys(r) == [j \in 1..Len(records[r].tasks) |-> records[r].tasks[j].id]

\* The tasks of the task_started events of call r, in publication order.
StartedTasks(r) ==
    LET started == SelectSeq(published[r], LAMBDA ev : ev.type = "task_started")
    IN  [j \in 1..Len(started) |-> started[j].task[1]]

\* C1: when executeDAG has finished on a DAG of N >= 1 tasks with distinct
\* ids, its record is either 'completed' with exactly N task records, all
\* 'completed', or 'failed' with exactly one task record 'failed', every task
\* before it in the array 'completed' and every task after it absent.
C1_FinalRecord ==
    \A r \in 1..Len(calls) :
        LET ids == TaskIds(calls[r].dag)
            N == Len(ids)
            ts == records[r].tasks
        IN  (Returned(r) /\ N >= 1) =>
                \/ /\ records[r].status = "completed"
                   /\ TaskKeys(r) = ids
                   /\ \A j \in 1..N : ts[j].status = "completed"
                \/ /\ records[r].status = "failed"
                   /\ Cardinality({j \in 1..Len(ts) : ts[j].status = "failed"}) = 1
                   /\ \E k \in 1..N :
                        /\ TaskKeys(r) = SubSeq(ids, 1, k)
                        /\ ts[k].status = "failed"
                        /\ \A j \in 1..(k - 1) : ts[j].status = "completed"

\* A run that failed at its second task of four: the first is completed, the
\* last two are absent.
C1_Witness ==
    \E r \in 1..Len(calls) :
        /\ Returned(r)
        /\ records[r].status = "failed"
        /\ Len(calls[r].dag.tasks) = 4
        /\ Len(records[r].tasks) = 2

\* C2: in every run the tasks started (the task_started events, and the
\* insertions into the task map) are a prefix of dag.tasks in array order,
\* whatever the dependency mapping says.
C2_ArrayOrder ==
    \A r \in 1..Len(calls) :
        /\ IsPrefix(StartedTasks(r), TaskIds(calls[r].dag))
        /\ IsPrefix(TaskKeys(r), TaskIds(calls[r].dag))
        /\ StartedTasks(r) = TaskKeys(r)

\* A task was started after the task that lists it as its prerequisite.
C2_Witness ==
    \E r \in 1..Len(calls) :
        \E i, j \in 1..Len(StartedTasks(r)) :
            /\ i < j
            /\ StartedTasks(r)[j] \in Prerequisites(calls[r].dag, StartedTasks(r)[i])

\* The events of a run that completes, and of a run that fails at its k-th task.
RECURSIVE TaskEvents(_, _)
TaskEvents(ids, k) ==
    IF k = 0 THEN <<>>
    ELSE TaskEvents(ids, k - 1) \o << <<"task_started", <<ids[k]>> >>,
                                      <<"task_completed", <<ids[k]>> >> >>

EventsOfCompletedRun(ids) ==
    << <<"execution_started", <<>> >> >> \o TaskEvents(ids, Len(ids))
        \o << <<"execution_completed", <<>> >> >>

EventsOfFailedRun(ids, k) ==
    << <<"execution_started", <<>> >> >> \o TaskEvents(ids, k - 1)
        \o << <<"task_started", <<ids[k]>> >>, <<"execution_completed", <<>> >> >>

EventsOf(r) == [j \in 1..Len(published[r]) |-> <<published[r][j].type, published[r][j].task>>]

\* C3: the events of one run are published in causal order: run-started, then
\* per started task in array order task_started and, when it succeeded,
\* task_completed, and last exactly one run-completed event, after which the
\* run publishes nothing; per run, also when runs interleave.
C3_CausalOrder ==
    \A r \in 1..Len(calls) :
        LET ids == TaskIds(calls[r].dag)
            evs == EventsOf(r)
            ends == {j \in 1..Len(evs) : evs[j][1] = "execution_completed"}
        IN  /\ evs # <<>>
            /\ \/ IsPrefix(evs, EventsOfCompletedRun(ids))
               \/ \E k \in 1..Len(ids) : IsPrefix(evs, EventsOfFailedRun(ids, k))
            /\ IF Returned(r) THEN ends = {Len(evs)} ELSE ends = {}
            /\ (Returned(r) /\ records[r].status = "completed")
                   => evs = EventsOfCompletedRun(ids)
            /\ (Returned(r) /\ records[r].status = "failed")
                   => \E k \in 1..Len(ids) :
                          /\ evs = EventsOfFailedRun(ids, k)
                          /\ records[r].tasks[k].status = "failed"

\* Two runs interleave: the first has failed at a later task while the second,
\* started before the first ended, is still running its own tasks.
C3_Witness ==
    /\ Len(calls) = 2
    /\ Returned(1) /\ records[1].status = "failed" /\ Len(published[1]) >= 5
    /\ ~Returned(2) /\ Len(published[2]) >= 4
    /\ Len(step) > 0 /\ step[Len(step)].event.execution = 1

\* C4: the status of an execution record is 'running' from its creation until
\* one transition to 'completed' or 'failed'; a terminal status never changes.
C4_StatusTransitions ==
    [][\A r \in 1..Len(records') :
          /\ records'[r].status \in {"running"} \cup Terminal
          /\ IF r <= Len(records)
             THEN records[r].status \in Terminal
                      => records'[r].status = records[r].status
             ELSE published'[r][1].status = "running"]_vars

\* A record has made its terminal transition while another call went on and
\* then ended too.
C4_Witness ==
    /\ Len(records) = 2
    /\ records[1].status = "failed"
    /\ records[2].status = "completed"
    /\ Len(step) > 0 /\ step[Len(step)].event.execution = 2
\* The last event call r has published is its run-completed event.
PublishedCompletion(r) ==
    /\ published[r] # <<>>
    /\ published[r][Len(published[r])].type = "execution_completed"

\* C5: every started run terminates: provided time passes and every timer
\* that is due fires, a call that has published its run-started event
\* eventually has status 'completed' or 'failed' and has published its
\* run-completed event.
C5_RunsTerminate ==
    \A r \in 1..MaxRuns :
        (Len(calls) >= r) ~>
            (/\ Len(calls) >= r
             /\ records[r].status \in Terminal
             /\ Returned(r)
             /\ PublishedCompletion(r))

\* A run of four tasks has gone through all its timers and has ended.
C5_Witness ==
    \E r \in 1..Len(calls) :
        /\ Len(calls[r].dag.tasks) = 4
        /\ Len(records[r].tasks) = 4
        /\ records[r].status \in Terminal
        /\ PublishedCompletion(r)

\* C6: a task failure never leaves executeDAG as a rejected promise: no call
\* is rejected, and a call that has finished has resolved with its record,
\* 'failed' when a task failed and 'completed' otherwise.
C6_NeverThrows ==
    \A r \in 1..Len(calls) :
        /\ calls[r].result # "rejected"
        /\ Returned(r) <=> calls[r].result = "resolved"
        /\ Returned(r) =>
              records[r].status =
                  IF \E j \in 1..Len(records[r].tasks) :
                         records[r].tasks[j].status = "failed"
                  THEN "failed" ELSE "completed"

\* A call whose first task failed has resolved with a 'failed' record.
C6_Witness ==
    \E r \in 1..Len(calls) :
        /\ calls[r].result = "resolved"
        /\ records[r].status = "failed"
        /\ records[r].tasks[1].status = "failed"
        /\ records[r].error = <<"Task failed">>

\* C7: metrics.successRate is within [70, 95] (140 to 190 half units) in every
\* reachable state, from the initial 85 on and after any sequence of
\* successful and failed runs.
C7_SuccessRateBounds == 140 <= metrics.successRate /\ metrics.successRate <= 190

\* The rate sits at the floor after a failed run that would have taken it lower.
C7_Witness ==
    /\ metrics.successRate = 140
    /\ metrics.totalExecutions > 15
    /\ step = <<[op |-> "updateMetrics", success |-> FALSE]>>

\* C8: metrics.queueDepth starts at 5, is never negative and never increases:
\* every finished run takes 1 off it while it is positive and leaves it at 0
\* once it is 0.
C8_QueueDepth ==
    /\ metrics.queueDepth = 5
    /\ [][/\ metrics'.queueDepth >= 0
          /\ metrics'.queueDepth =
                 IF metrics.queueDepth > 0 THEN metrics.queueDepth - 1 ELSE 0]_vars

\* A run has finished with the queue depth already at 0.
C8_Witness == metrics.queueDepth = 0 /\ metrics.totalExecutions > 5

\* C9: updateMetrics(success) adds 1 to totalExecutions for both outcomes,
\* makes successRate min(95, successRate + 0.5) on success and
\* max(70, successRate - 1) on failure, makes queueDepth max(0, queueDepth - 1)
\* and leaves avgExecutionTime and activeWorkers as they are.
C9_UpdateMetrics ==
    [][\A k \in 1..Len(step') :
          step'[k].op = "updateMetrics" =>
              LET success == step'[k].success
                  raised == metrics.successRate + 1
                  lowered == metrics.successRate - 2
              IN  /\ metrics'.totalExecutions = metrics.totalExecutions + 1
                  /\ success => metrics'.successRate =
                                    IF raised > 190 THEN 190 ELSE raised
                  /\ ~success => metrics'.successRate =
                                     IF lowered < 140 THEN 140 ELSE lowered
                  /\ metrics'.queueDepth =
                         IF metrics.queueDepth >= 1 THEN metrics.queueDepth - 1 ELSE 0
                  /\ metrics'.avgExecutionTime = metrics.avgExecutionTime
                  /\ metrics'.activeWorkers = metrics.activeWorkers]_vars

\* A successful run has met the cap of 95 and a failed run has then taken 1 off.
C9_Witness ==
    /\ metrics.successRate = 188
    /\ metrics.totalExecutions > 21
    /\ step = <<[op |-> "updateMetrics", success |-> FALSE]>>

\* The callbacks the notify calls of a macrotask have called.
Called(log) ==
    UNION {Range(log[k].to) : k \in {j \in 1..Len(log) : log[j].op = "notify"}}

\* C10: once the function returned by subscribe(callback) has been called, the
\* callback receives no further event (until it is subscribed again): neither
\* the remaining events of a run that was in flight then nor the events of a
\* later run.
C10_Unsubscribed ==
    [][\A c \in Callbacks : unsubscribed[c] # "no" => c \notin Called(step')]_vars

\* A callback was unsubscribed while the only call was in flight, and a later
\* event of that call has gone to the other callback alone.
C10_Witness ==
    \E c \in Callbacks :
        /\ unsubscribed[c] = "busy"
        /\ Len(calls) = 1
        /\ Len(published[1]) >= 3
        /\ Called(step) = Callbacks \ {c}

----------------------------------------------------------------------------
\* The notify calls of the last macrotask.
Notified == {k \in 1..Len(step) : step[k].op = "notify"}

\* C11: unsubscribing during delivery does not affect the delivery in flight:
\* every callback that was subscribed when notify was called is called with
\* the event, also when another callback unsubscribes it before its turn.
C11_DeliveryUnaffected ==
    \A k \in Notified : Range(step[k].subscribed) \subseteq Range(step[k].to)

\* C12: notify calls every callback that is subscribed at the time of the
\* call exactly once, within the call, in the order of subscription.
C12_OnceInOrder ==
    \A k \in Notified : step[k].to = step[k].subscribed

----------------------------------------------------------------------------
\* The events of the last macrotask that were delivered to some subscriber.
Delivered == {k \in Notified : step[k].to # <<>>}

\* C13 as stated: every delivered event has a type in {run_started,
\* task_started, task_completed, run_completed}.
C13_RunEventTypes ==
    \A k \in Delivered :
        step[k].event.type \in {"run_started", "task_started", "task_completed",
                                "run_completed"}

\* C13 (amended): every delivered event has a type in {execution_started,
\* task_started, task_completed, execution_completed}, carries the execution
\* record, and carries the task execution record of a task of that execution
\* exactly when it is a task-level event.
C13_EventTypes ==
    \A k \in Delivered :
        LET event == step[k].event
        IN  /\ event.type \in {"execution_started", "task_started", "task_completed",
                               "execution_completed"}
            /\ event.execution \in 1..Len(records)
            /\ event.type \in TaskLevel <=> event.task # <<>>
            /\ event.task # <<>> =>
                   /\ event.task[1] \in Range(TaskKeys(event.execution))
                   /\ event.taskStatus # <<>>

\* Some callback was called with an event of every type in one macrotask:
\* the last task of a run completed.
C13_Witness ==
    /\ \E k \in Delivered : step[k].event.type = "task_completed"
    /\ \E k \in Delivered : step[k].event.type = "execution_completed"
    /\ \E r \in 1..Len(records) :
          \E j \in 1..Len(published[r]) : published[r][j].type = "task_started"

----------------------------------------------------------------------------
\* C14: every call of executeDAG creates its record under an identifier
\* different from that of every earlier run, so the record store holds one
\* record per started run and never replaces one.
C14_DistinctIds ==
    /\ \A r1, r2 \in 1..Len(records) : r1 # r2 => records[r1].id # records[r2].id
    /\ Len(executions) = Len(records)
    /\ \A r \in 1..Len(records) :
          \E j \in 1..Len(executions) :
              executions[j].key = records[r].id /\ executions[j].value = r

----------------------------------------------------------------------------
\* What call r published, without the identity of its record.
EventView(r) == [j \in 1..Len(published[r]) |-> [published[r][j] EXCEPT !.execution = 0]]

\* The draws of Math.random() > 0.15 call r has made: one per task that has
\* left 'running'.
Draws(r) ==
    [j \in 1..Len(SelectSeq(records[r].tasks, LAMBDA t : t.status # "running")) |->
        records[r].tasks[j].status = "completed"]

\* Call r has just returned.
Returns(r) ==
    /\ r \in 1..Len(calls')
    /\ calls'[r].pc = "returned"
    /\ r \in 1..Len(calls) => calls[r].pc # "returned"

\* Two runs of the same DAG that have made the same draws and are at the same
\* point have published the same events and have equal records but for the id.
SameDrawsSameRun ==
    \A r1, r2 \in 1..Len(calls) :
        /\ r1 < r2
        /\ calls[r1].dag = calls[r2].dag
        /\ Draws(r1) = Draws(r2)
        /\ calls[r1].i = calls[r2].i
        /\ calls[r1].pc = calls[r2].pc
        => /\ EventView(r1) = EventView(r2)
           /\ [records[r1] EXCEPT !.id = ""] = [records[r2] EXCEPT !.id = ""]
           /\ calls[r1].result = calls[r2].result

\* C15: given the random values drawn, a run is deterministic: two runs of
\* the same DAG that draw the same values publish the same events (types,
\* order, tasks, task and run statuses), whatever else the engine is doing,
\* and a run leaves the metrics it found updated once by the outcome its
\* draws determine.
C15_Deterministic ==
    [][/\ SameDrawsSameRun'
       /\ \A r \in 1..Len(calls') :
             Returns(r) =>
                metrics' = updateMetrics(metrics,
                              /\ Len(Draws(r)') = Len(calls'[r].dag.tasks)
                              /\ \A j \in 1..Len(Draws(r)') : Draws(r)'[j])]_vars

\* Two runs of the four-task DAG have drawn the same values, the second task
\* failing, at different times.
C15_Witness ==
    \E r1, r2 \in 1..Len(calls) :
        /\ r1 # r2
        /\ calls[r1].dag = calls[r2].dag
        /\ Returned(r1) /\ Returned(r2)
        /\ Draws(r1) = <<TRUE, FALSE>>
        /\ Draws(r2) = <<TRUE, FALSE>>
        /\ records[r1].id # records[r2].id

----------------------------------------------------------------------------
\* The record of task id in execution r, if it has been started.
Started(r, id) == {j \in 1..Len(records[r].tasks) : records[r].tasks[j].id = id}

\* C16: in every run of a shipped DAG a task is started only after every task
\* its dependencies list as a prerequisite has status 'completed'.
C16_Dependencies ==
    \A r \in 1..Len(calls) :
        \A id \in Range(TaskKeys(r)) :
            \A p \in Prerequisites(calls[r].dag, id) :
                \E j \in Started(r, p) : records[r].tasks[j].status = "completed"

\* Both shipped DAGs have run up to their last task, which has prerequisites.
C16_Witness ==
    /\ \E r \in 1..Len(calls) :
          calls[r].dag = SAMPLE_DAGS.ml_pipeline /\ Started(r, "deploy_model") # {}
    /\ \E r \in 1..Len(calls) :
          calls[r].dag = SAMPLE_DAGS.data_pipeline /\ Started(r, "load") # {}

----------------------------------------------------------------------------
\* C17: the UI allows at most one run in flight at a time: while a run started
\* from the Execute trigger has not published its last event, the UI makes no
\* second call of engine.executeDAG, whatever the order of clicks, renders
\* and timer callbacks.
C17_OneRunInFlight ==
    [][\A r \in 1..Len(calls') :
          r > Len(calls) => \A r0 \in 1..Len(calls) : PublishedCompletion(r0)]_vars

\* The trigger is blocked while the second run started from it is in flight,
\* the first one having ended.
C17_Witness ==
    /\ Len(calls) = 2
    /\ Returned(1)
    /\ InFlight = {2}
    /\ ui.user
    /\ ~canExecute(ui)

----------------------------------------------------------------------------
\* C18: the keys of a record's task map are the first k tasks of dag.tasks,
\* the first k-1 of them are 'completed', only the last one may be 'running'
\* or 'failed', and so at most one task of a run is 'running'.
C18_TaskMap ==
    \A r \in 1..Len(calls) :
        LET ts == records[r].tasks
            k == Len(ts)
        IN  /\ k <= Len(calls[r].dag.tasks)
            /\ TaskKeys(r) = SubSeq(TaskIds(calls[r].dag), 1, k)
            /\ \A j \in 1..(k - 1) : ts[j].status = "completed"
            /\ k > 0 => ts[k].status \in {"running", "completed", "failed"}
            /\ Cardinality({j \in 1..k : ts[j].status = "running"}) <= 1

\* A run has its third task running after two completed ones, and another
\* run has stopped at a failed task.
C18_Witness ==
    /\ \E r \in 1..Len(calls) :
          /\ Len(records[r].tasks) = 3
          /\ records[r].tasks[3].status = "running"
    /\ \E r \in 1..Len(calls) :
          /\ Len(records[r].tasks) = 2
          /\ records[r].tasks[2].status = "failed"

----------------------------------------------------------------------------
\* C19: the metrics are updated exactly once per run and before the run's
\* last event is published: totalExecutions is the number of runs with a
\* terminal status, and each execution_completed event follows the
\* updateMetrics call of its run in the same macrotask.
C19_MetricsOncePerRun ==
    /\ metrics.totalExecutions =
          Cardinality({r \in 1..Len(records) : records[r].status \in Terminal})
    /\ \A k \in Notified :
          step[k].event.type = "execution_completed" =>
             /\ k > 1
             /\ step[k - 1].op = "updateMetrics"
             /\ step[k - 1].success = (step[k].event.status = "completed")
    /\ Cardinality({k \in 1..Len(step) : step[k].op = "updateMetrics"}) <= 1

\* A run has just ended while another one is still in flight.
C19_Witness ==
    /\ \E k \in Notified : step[k].event.type = "execution_completed"
    /\ InFlight # {}
    /\ metrics.totalExecutions = 1

----------------------------------------------------------------------------
\* The failed tasks of execution r.
FailedTasks(r) ==
    {j \in 1..Len(records[r].tasks) : records[r].tasks[j].status = "failed"}

\* C20 as stated: the error message of a failed run equals the error message
\* recorded on the failed task; a completed run has none.
C20_ErrorCopied ==
    \A r \in 1..Len(records) :
        /\ records[r].status = "failed" =>
              \E j \in FailedTasks(r) : records[r].error = records[r].tasks[j].error
        /\ records[r].status = "completed" => records[r].error = <<>>

\* C20 (amended): the error message of a failed run is the message of the
\* error thrown, 'Task failed', while the failed task's record holds 'Task
\* execution failed'; a run that is running or completed has no error message.
C20_ErrorMessages ==
    \A r \in 1..Len(records) :
        /\ records[r].status = "failed" =>
              /\ records[r].error = <<"Task failed">>
              /\ FailedTasks(r) # {}
              /\ \A j \in FailedTasks(r) :
                    records[r].tasks[j].error = <<"Task execution failed">>
        /\ records[r].status # "failed" => records[r].error = <<>>

\* A run has failed, and another has completed.
C20_Witness ==
    /\ \E r \in 1..Len(records) : records[r].status = "failed"
    /\ \E r \in 1..Len(records) :
          records[r].status = "completed" /\ Len(records[r].tasks) > 0

----------------------------------------------------------------------------
\* C21: an event is immutable once delivered: the run status, the task map
\* and the task status a subscriber saw in an event when it was delivered are
\* what the event contains after every later step of the engine.
C21_EventsImmutable ==
    \A r \in 1..Len(published) :
        \A j \in 1..Len(published[r]) :
            LET event == published[r][j]
                execution == records[event.execution]
            IN  /\ event.status = execution.status
                /\ event.tasks = execution.tasks
                /\ event.task # <<>> =>
                      \E k \in Started(event.execution, event.task[1]) :
                          event.taskStatus = <<execution.tasks[k].status>>

----------------------------------------------------------------------------
\* C22: the Execute trigger is always re-enabled after a run: whenever
\* isExecuting is true it eventually becomes false, for every interleaving of
\* the run with clicks, logout and login.
C22_TriggerReenabled == ui.isExecuting ~> ~ui.isExecuting

----------------------------------------------------------------------------
\* The deliveries of a task-level event in the last macrotask during which a
\* callback threw.
ThrownAtTask ==
    {k \in Notified : step[k].thrown # <<>> /\ step[k].event.type \in TaskLevel}

\* What executeDAG does with the exception thrown during the k-th call of the
\* macrotask, up to its last notify: the run is 'failed' with the callback's
\* message, updateMetrics(false) is applied, execution_completed is published,
\* and the record has a last task 'running' or 'completed' and no failed task.
CaughtInRun(k) ==
    LET r == step[k].event.execution
        ts == records[r].tasks
    IN  /\ calls[r].pc = "returned"
        /\ records[r].status = "failed"
        /\ records[r].error = step[k].thrown
        /\ Len(step) = k + 2
        /\ step[k + 1] = [op |-> "updateMetrics", success |-> FALSE]
        /\ step[k + 2].op = "notify"
        /\ step[k + 2].event.type = "execution_completed"
        /\ step[k + 2].event.execution = r
        /\ FailedTasks(r) = {}
        /\ ts # <<>>
        /\ ts[Len(ts)].status \in {"running", "completed"}

\* C23 as stated: a callback that throws while a task-level event is
\* delivered does not make executeDAG throw: the exception is caught, the run
\* ends 'failed' with the callback's message, updateMetrics(false) is applied
\* and execution_completed is published, with no failed task in the record.
C23_NeverRejects ==
    \A k \in ThrownAtTask :
        /\ CaughtInRun(k)
        /\ calls[step[k].event.execution].result = "resolved"

\* C23 (amended): the exception thrown while a task-level event is delivered
\* is caught as stated, and executeDAG resolves unless a callback throws again
\* while the execution_completed event is delivered, in which case the
\* promise of executeDAG is rejected.
C23_CaughtUnlessThrownAgain ==
    \A k \in ThrownAtTask :
        /\ CaughtInRun(k)
        /\ calls[step[k].event.execution].result =
              IF step[k + 2].thrown = <<>> THEN "resolved" ELSE "rejected"

\* A callback threw while task_started was delivered for the first task of a
\* run: executeDAG resolved, and the task is left 'running' in a failed run.
C23_Witness ==
    \E k \in ThrownAtTask :
        LET r == step[k].event.execution
        IN  /\ step[k].event.type = "task_started"
            /\ calls[r].result = "resolved"
            /\ Len(records[r].tasks) = 1
            /\ records[r].tasks[1].status = "running"
            /\ records[r].status = "failed"

============================================================================
